---------------------------- MODULE Spec2Model ----------------------------
(***************************************************************************)
(* Model of the Dattorro reverberation Metasound node                      *)
(* (Plugins/DattorroReverbMetasound/.../MetasoundReverberationNode.cpp).   *)
(*                                                                         *)
(* Numbers.  Every C++ float is a fixed-point integer counted in units of  *)
(* 1/Scale (1.0 is Scale).  A product of two floats is Mul, which rounds   *)
(* toward zero as one rounded float product does; an int32 cast is Trunc.  *)
(* The sample rate and buffer indices are plain integers.                  *)
(*                                                                         *)
(* Engine types.  Audio::FDelay, Audio::FDelayAPF, Audio::FExponentialEase *)
(* and Audio::FStateVariableFilter belong to Unreal Engine's               *)
(* SignalProcessing module.  They are modelled by what the engine does at  *)
(* the calls this file makes: ReadDelayAt takes MILLISECONDS and wraps a   *)
(* negative index once by the buffer size (no modulo), SetDelaySamples     *)
(* clamps the delay to the buffer, SetG stores its argument as it is.      *)
(* A read outside the buffer is undefined behaviour: the checked build     *)
(* stops at the array's range check, the unchecked build returns whatever  *)
(* the memory holds.                                                       *)
(***************************************************************************)
EXTENDS Integers, Sequences, FiniteSets, TLC

(***************************************************************************)
(* Bounds of the exploration                                               *)
(***************************************************************************)
\* fixed-point resolution: units per 1.0
Scale == 1000
\* sample rate the host constructs the operator with, in Hz
HostSampleRate == 1000
\* frames per block in the general specification
BlockSize == 2
\* Execute calls explored in the general specification
MaxBlocks == 2
\* frames per block and Execute calls of the default-parameter scenario
ScenarioBlockSize == 16
ScenarioBlocks == 6

(***************************************************************************)
(* Arithmetic                                                              *)
(***************************************************************************)
Abs(x) == IF x < 0 THEN -x ELSE x

Max(a, b) == IF a >= b THEN a ELSE b

Min(a, b) == IF a <= b THEN a ELSE b

\* the element of a one-element set.  Only({e(x) : x \in {v}}) is e(v) with
\* v computed once, however often e uses it
Only(S) == CHOOSE x \in S : TRUE

\* integer division rounding toward zero, as C++ does (b > 0)
TruncDiv(a, b) == IF a >= 0 THEN a \div b ELSE -((-a) \div b)

\* the fixed-point value of the fraction n/d
Frac(n, d) == TruncDiv(n * Scale, d)

\* a whole number as a float
Whole(n) == n * Scale

\* float * float
Mul(a, b) == TruncDiv(a * b, Scale)

\* (int32) of a float
Trunc(x) == TruncDiv(x, Scale)

\* FMath::Clamp
Clamp(x, lo, hi) == IF x < lo THEN lo ELSE IF x > hi THEN hi ELSE x

\* FMath::Lerp(A, B, Alpha) = A + Alpha * (B - A)
Lerp(a, b, alpha) == a + Mul(alpha, b - a)

\* FMath::IsNearlyEqual with its default tolerance 1e-8
IsNearlyEqual(a, b) == Abs(a - b) <= Scale \div 100000000

\* FMath::Fmod: a zero divisor is reported and 0 is returned
Fmod(x, y) == IF y = 0 THEN 0 ELSE x - Abs(y) * TruncDiv(x, Abs(y))

(***************************************************************************)
(* Audio::FExponentialEase                                                 *)
(***************************************************************************)
\* Init(InInitValue): current and target both start at the value
Ease_Init(v) == [CurrentValue |-> v, TargetValue |-> v]

\* IsDone: |Target - Current| < 1e-4
Ease_IsDone(e) == Abs(e.TargetValue - e.CurrentValue) <= (Scale - 1) \div 10000

\* one step of Current += (Target - Current) * 0.001; the step of a value
\* that is not done is never zero
Ease_Step(e) ==
  LET diff == e.TargetValue - e.CurrentValue
      step == TruncDiv(diff, 1000)
      move == IF step # 0 THEN step ELSE IF diff > 0 THEN 1 ELSE -1
  IN  e.CurrentValue + move

\* GetNextValue: advances unless done
Ease_GetNextValue(e) ==
  IF Ease_IsDone(e) THEN e ELSE [e EXCEPT !.CurrentValue = Ease_Step(e)]

\* SetValue(InValue): a new target; the current value is kept
Ease_SetValue(e, v) == [e EXCEPT !.TargetValue = v]

(***************************************************************************)
(* Audio::FDelay.  AudioBuffer is zero-filled when created; it is kept as  *)
(* a function from the indices holding a nonzero sample to that sample.    *)
(***************************************************************************)
EmptyBuffer == [j \in {} |-> 0]

BufGet(b, i) == IF i \in DOMAIN b THEN b[i] ELSE 0

BufPut(b, i, v) ==
  IF v = 0
  THEN [j \in (DOMAIN b) \ {i} |-> b[j]]
  ELSE [j \in (DOMAIN b) \cup {i} |-> IF j = i THEN v ELSE b[j]]

\* Update(true): clamp the delay to the buffer and place the read index
FDelay_Update(d) ==
  LET dl == Clamp(d.DelayInSamples, 0, Whole(d.AudioBufferSize - 1))
      ri == d.WriteIndex - (Trunc(dl) + 1)
  IN  [d EXCEPT !.DelayInSamples = dl,
                !.ReadIndex = IF ri < 0 THEN ri + d.AudioBufferSize ELSE ri]

\* Init(InSampleRate, InBufferLengthSec): lengthMs is the length in ms
FDelay_Init(sr, lengthMs) ==
  FDelay_Update([AudioBufferSize |-> TruncDiv(lengthMs * sr, 1000 * Scale) + 1,
                 WriteIndex |-> 0,
                 ReadIndex |-> 0,
                 DelayInSamples |-> 0,
                 G |-> 0,
                 AudioBuffer |-> EmptyBuffer])

\* the default buffer length of Init(InSampleRate): 2.0 seconds
DefaultBufferLengthMs == Whole(2000)

\* a SetDelaySamples that would set the line up again, sized for the delay
C17_SetDelaySamplesReinit(d, samples) ==
  FDelay_Update([d EXCEPT !.DelayInSamples = samples,
                          !.AudioBufferSize = Trunc(Max(samples, 0)) + 2,
                          !.WriteIndex = 0,
                          !.AudioBuffer = EmptyBuffer])

\* SetDelaySamples(InDelaySamples)
FDelay_SetDelaySamples(d, samples) ==
  FDelay_Update([d EXCEPT !.DelayInSamples = samples])

\* FDelayAPF::SetG(InG)
FDelayAPF_SetG(d, g) == [d EXCEPT !.G = g]

\* Read(): the sample at the read index, interpolated with the one before
FDelay_Read(d) ==
  LET prev == IF d.ReadIndex - 1 < 0 THEN d.AudioBufferSize - 1
              ELSE d.ReadIndex - 1
      fraction == d.DelayInSamples - Whole(Trunc(d.DelayInSamples))
  IN  Lerp(BufGet(d.AudioBuffer, d.ReadIndex), BufGet(d.AudioBuffer, prev),
           fraction)

\* the index ReadDelayAt(InReadMsec) reads: WriteIndex minus the delay in
\* samples, wrapped once when negative
FDelay_ReadIndexAt(d, sr, readMs) ==
  LET samples == TruncDiv(readMs * sr, 1000)
      ti == d.WriteIndex - Trunc(samples)
  IN  IF ti < 0 THEN ti + d.AudioBufferSize ELSE ti

\* whether ReadDelayAt(InReadMsec) indexes outside the buffer
FDelay_ReadOutOfRange(d, sr, readMs) ==
  LET ti == FDelay_ReadIndexAt(d, sr, readMs)
  IN  ti < 0 \/ ti >= d.AudioBufferSize

\* ReadDelayAt(InReadMsec); garbage is what an out-of-range read returns
FDelay_ReadDelayAt(d, sr, readMs, garbage) ==
  LET samples == TruncDiv(readMs * sr, 1000)
      ti == FDelay_ReadIndexAt(d, sr, readMs)
      prev == IF ti - 1 < 0 THEN d.AudioBufferSize - 1 ELSE ti - 1
      fraction == samples - Whole(Trunc(samples))
  IN  IF FDelay_ReadOutOfRange(d, sr, readMs)
      THEN garbage
      ELSE Lerp(BufGet(d.AudioBuffer, ti), BufGet(d.AudioBuffer, prev),
                fraction)

\* WriteDelayAndInc(InDelayInput)
FDelay_WriteDelayAndInc(d, v) ==
  [d EXCEPT !.AudioBuffer = BufPut(d.AudioBuffer, d.WriteIndex, v),
            !.WriteIndex = (d.WriteIndex + 1) % d.AudioBufferSize,
            !.ReadIndex = (d.ReadIndex + 1) % d.AudioBufferSize]

(***************************************************************************)
(* Audio::FDelayAPF::ProcessAudioSample: w(n) = x + g w(n-D),              *)
(* y = -g w(n) + w(n-D); the input passes through when the read index is   *)
(* the write index.  Result: <<the filter afterwards, the output sample>>. *)
(***************************************************************************)
FDelayAPF_ProcessAudioSample(d, x) ==
  IF d.ReadIndex = d.WriteIndex
  THEN <<FDelay_WriteDelayAndInc(d, x), x>>
  ELSE Only({ Only({ <<FDelay_WriteDelayAndInc(d, Wn), Mul(-d.G, Wn) + WnD>>
                     : Wn \in {x + Mul(d.G, WnD)} })
              : WnD \in {FDelay_Read(d)} })

(***************************************************************************)
(* Audio::FStateVariableFilter (low-pass output).  Update derives the      *)
(* coefficients from the frequency and Q that were set; ProcessAudioFrame  *)
(* runs the two-integrator core on one sample.                             *)
(***************************************************************************)
\* Audio::FastTanh, the saturation inside the filter core
FastTanh(x) ==
  Only({ TruncDiv(Mul(c, Whole(27) + Mul(c, c)) * Scale,
                  Whole(27) + 9 * Mul(c, c))
         : c \in {Clamp(x, -Whole(3), Whole(3))} })

\* Init(SampleRate, 1): registers at rest, coefficients not yet derived
SVF_Init ==
  [Frequency |-> 0, Q |-> 0, BandStop |-> 0,
   G |-> 0, Feedback |-> 0, InputScale |-> 0,
   Z1_1 |-> 0, Z1_2 |-> 0]

SVF_SetFrequency(f, hz) == [f EXCEPT !.Frequency = hz]

SVF_SetQ(f, q) == [f EXCEPT !.Q = q]

SVF_SetBandStopControl(f, b) == [f EXCEPT !.BandStop = Clamp(b, 0, Scale)]

\* Update(): G ~ tan(pi f / SampleRate) of the frequency held inside the
\* audible band, Feedback = 1/Q of the Q held away from zero,
\* InputScale = 1 / (1 + Feedback G + G G)
SVF_Update(f, sr) ==
  LET fc == Clamp(f.Frequency, 0, Whole(sr) \div 2)
      qc == Clamp(f.Q, Frac(1, 2), Whole(10))
      g == TruncDiv(3 * fc, sr)
      fb == TruncDiv(Scale * Scale, qc)
  IN  [f EXCEPT !.G = g,
                !.Feedback = fb,
                !.InputScale = TruncDiv(Scale * Scale,
                                        Scale + Mul(fb, g) + Mul(g, g))]

\* ProcessAudioFrame: <<the filter afterwards, the low-pass output>>
SVF_ProcessAudioFrame(f, x) ==
  Only({ Only({ Only({ <<[f EXCEPT !.Z1_1 = Mul(f.G, HPF) + BPF,
                                   !.Z1_2 = Mul(f.G, BPF) + LPF],
                         LPF>>
                       : LPF \in {Mul(f.G, BPF) + f.Z1_2} })
                : BPF \in {FastTanh(Mul(f.G, HPF) + f.Z1_1)} })
         : HPF \in {Mul(f.InputScale,
                        x - Mul(f.Feedback, f.Z1_1) - f.Z1_2)} })

\* ProcessAudio over a block: <<the filter afterwards, the output block>>
RECURSIVE SVF_ProcessAudio(_, _)
SVF_ProcessAudio(f, block) ==
  IF block = <<>>
  THEN <<f, <<>>>>
  ELSE Only({ Only({ <<rest[1], <<one[2]>> \o rest[2]>>
                     : rest \in {SVF_ProcessAudio(one[1], Tail(block))} })
              : one \in {SVF_ProcessAudioFrame(f, Head(block))} })

(***************************************************************************)
(* The host's side: the parameter references and their vertex defaults     *)
(***************************************************************************)
\* GetVertexInterface: the literal each input pin holds when unconnected
DefaultParams ==
  [PreDelayTime      |-> Whole(50),
   PreLowPassFilter  |-> Whole(1),
   LowPassCutoff     |-> Whole(500),
   AllPassCutoff     |-> Frac(4, 10),
   InputDiffusion1   |-> Frac(750, 1000),
   InputDiffusion2   |-> Frac(625, 1000),
   DecayRate         |-> Frac(1, 10),
   InFeedbackDelay1  |-> Whole(80),
   DecayDiffusion1   |-> Frac(7, 10),
   DecayDiffusion2   |-> Frac(5, 10),
   DecayDamping      |-> Frac(5, 1000),
   RandomDelay       |-> Whole(16),
   InFeedbackDelay2  |-> Whole(60),
   InFinalDelayLeft  |-> Whole(120),
   InFinalDelayRight |-> Whole(100),
   WetValue          |-> Frac(65, 100),
   DryValue          |-> Frac(35, 100)]

\* Delay lengths for Dattorro AllPass in samples
DelayLengths == <<142, 379, 107, 277>>

\* the values FMath::RandRange(0, DelayRate) can return, DelayRate being
\* the int32 of Random Delay
RandRange(p) == 0 .. Max(Trunc(p.RandomDelay), 0)

(***************************************************************************)
(* FReverberationOperator: getters                                         *)
(***************************************************************************)
\* GetDelayLengthClamped: FMath::Clamp(*PreDelayTime, 10, 100)
GetDelayLengthClamped(p) == Clamp(p.PreDelayTime, Whole(10), Whole(100))

\* GetPhasorPhaseIncrement: (1 / DelayLength) / SampleRate
GetPhasorPhaseIncrement(o) ==
  LET DelayLength == o.CurrentDelayLength.CurrentValue
  IN  IF DelayLength = 0 THEN 0
      ELSE TruncDiv(TruncDiv(Scale * Scale, Abs(DelayLength)), o.SampleRate)

(***************************************************************************)
(* FReverberationOperator: construction                                    *)
(***************************************************************************)
\* InitialiseFeedbackParameters; randLeft and randRight are the two values
\* FMath::RandRange returned
InitialiseFeedbackParameters(o, p, randLeft, randRight) ==
  LET sr == o.SampleRate
      tailAPF(g, samples) ==
        FDelay_SetDelaySamples(
          FDelayAPF_SetG(FDelay_Init(sr, p.PreDelayTime), g), samples)
  IN  [o EXCEPT
        !.FeedbackDelayLeft =
           FDelay_SetDelaySamples(FDelay_Init(sr, p.InFeedbackDelay1),
                                  p.InFeedbackDelay1),
        !.FeedbackDelayEaseLeft =
           Ease_SetValue(Ease_Init(p.InFeedbackDelay1), p.InFeedbackDelay1),
        !.FeedbackDelayRight =
           FDelay_SetDelaySamples(FDelay_Init(sr, p.InFeedbackDelay2),
                                  p.InFeedbackDelay2),
        !.FeedbackDelayEaseRight =
           Ease_SetValue(Ease_Init(p.InFeedbackDelay2), p.InFeedbackDelay2),
        !.PostLPFFeedbackDelayLeft =
           FDelay_SetDelaySamples(FDelay_Init(sr, DefaultBufferLengthMs),
                                  p.InFinalDelayLeft),
        !.PostLPFFeedbackDelayRight =
           FDelay_SetDelaySamples(FDelay_Init(sr, DefaultBufferLengthMs),
                                  p.InFinalDelayRight),
        !.DecayDiffusionFilter1Left =
           tailAPF(p.DecayDiffusion1, Whole(250 + randLeft)),
        !.DecayDiffusionFilter1Right =
           tailAPF(p.DecayDiffusion1, Whole(440 + randRight)),
        !.DecayDiffusionFilter2Left = tailAPF(p.DecayDiffusion1, Whole(770)),
        !.DecayDiffusionFilter2Right = tailAPF(p.DecayDiffusion2, Whole(960))]

\* the constructor, from the sample rate of the settings and the values the
\* parameter references hold at that moment
Construct(sr, p, randLeft, randRight) ==
  LET cdl == Ease_Init(GetDelayLengthClamped(p))
      blank == FDelay_Init(sr, 0)
      o0 == [SampleRate |-> sr,
             CurrentDelayLength |-> cdl,
             PhasorPhaseIncrement |-> 0,
             DelayBuffer |->
               FDelay_SetDelaySamples(FDelay_Init(sr, p.PreDelayTime),
                                      p.PreDelayTime),
             LPVariableFilter |-> SVF_Init,
             PreviousFrequency |-> -Scale,
             PreviousResonance |-> -Scale,
             PreviousBandStopControl |-> -Scale,
             PreviousAllPassFrequency |-> -Scale,
             PreviousAllPassResonance |-> -Scale,
             DattorroAllPassFilters |->
               [i \in 1 .. Len(DelayLengths) |->
                  FDelay_Init(sr, DefaultBufferLengthMs)],
             DecayDiffusionFilter1Left |-> blank,
             DecayDiffusionFilter2Left |-> blank,
             DecayDiffusionFilter1Right |-> blank,
             DecayDiffusionFilter2Right |-> blank,
             PostLPFFeedbackDelayLeft |-> blank,
             PostLPFFeedbackDelayRight |-> blank,
             FeedbackDelayLeft |-> blank,
             FeedbackDelayEaseLeft |-> Ease_Init(0),
             FeedbackDelayRight |-> blank,
             FeedbackDelayEaseRight |-> Ease_Init(0),
             DampingMultiplicationValue |-> 0,
             LPDampingFilter |-> SVF_Init,
             FeedbackLeft |-> 0,
             FeedbackRight |-> 0]
      o1 == [o0 EXCEPT !.PhasorPhaseIncrement = GetPhasorPhaseIncrement(o0)]
      o2 == InitialiseFeedbackParameters(o1, p, randLeft, randRight)
  IN  [o2 EXCEPT !.DampingMultiplicationValue = Scale - p.DecayDamping]

(***************************************************************************)
(* FReverberationOperator: the per-block part of Execute                   *)
(***************************************************************************)
\* LowPassFilter(), the condition of its branch: bNeedsUpdate
LowPassNeedsUpdate(o, p) ==
  LET CurrentFrequency == Clamp(p.LowPassCutoff, 0, Whole(o.SampleRate) \div 2)
      CurrentBandStopControl == Clamp(0, 0, Scale)
  IN  \/ ~IsNearlyEqual(o.PreviousFrequency, CurrentFrequency)
      \/ ~IsNearlyEqual(o.PreviousBandStopControl, CurrentBandStopControl)

\* LowPassFilter()
LowPassFilter(o, p) ==
  LET CurrentFrequency == Clamp(p.LowPassCutoff, 0, Whole(o.SampleRate) \div 2)
      CurrentBandStopControl == Clamp(0, 0, Scale)
      bNeedsUpdate == LowPassNeedsUpdate(o, p)
      lp == SVF_Update(
              SVF_SetBandStopControl(
                SVF_SetFrequency(
                  SVF_SetQ(o.LPVariableFilter, Scale - p.PreLowPassFilter),
                  p.LowPassCutoff),
                CurrentBandStopControl),
              o.SampleRate)
      damp == SVF_Update(
                SVF_SetQ(
                  SVF_SetFrequency(o.LPDampingFilter,
                                   TruncDiv(p.LowPassCutoff, 2)),
                  p.DecayDamping),
                o.SampleRate)
  IN  IF bNeedsUpdate
      THEN [o EXCEPT !.LPVariableFilter = lp,
                     !.LPDampingFilter = damp,
                     !.PreviousFrequency = CurrentFrequency,
                     !.PreviousBandStopControl = CurrentBandStopControl]
      ELSE o

\* the coefficient AllPassFilter() hands to input diffuser i
InputDiffuserG(p, i) == IF i <= 2 THEN p.InputDiffusion1 ELSE p.InputDiffusion2

\* the loop of AllPassFilter(), from diffuser i on
RECURSIVE SetDiffusers(_, _, _)
SetDiffusers(filters, p, i) ==
  IF i > Len(filters) THEN <<>>
  ELSE <<FDelay_SetDelaySamples(
           FDelayAPF_SetG(filters[i], InputDiffuserG(p, i)),
           Whole(DelayLengths[i]))>> \o SetDiffusers(filters, p, i + 1)

\* AllPassFilter(), the condition of its branch: bNeedsUpdate
AllPassNeedsUpdate(o, p) ==
  LET CurrentFrequency == Clamp(p.AllPassCutoff, 0, Whole(o.SampleRate) \div 2)
      CurrentResonance == Clamp(p.InputDiffusion1, 0, Whole(10))
  IN  \/ ~IsNearlyEqual(o.PreviousFrequency, CurrentFrequency)
      \/ ~IsNearlyEqual(o.PreviousResonance, CurrentResonance)

\* AllPassFilter()
AllPassFilter(o, p) ==
  LET CurrentFrequency == Clamp(p.AllPassCutoff, 0, Whole(o.SampleRate) \div 2)
      CurrentResonance == Clamp(p.InputDiffusion1, 0, Whole(10))
      bNeedsUpdate == AllPassNeedsUpdate(o, p)
  IN  IF bNeedsUpdate
      THEN [o EXCEPT
             !.DattorroAllPassFilters = SetDiffusers(@, p, 1),
             !.PreviousAllPassFrequency = CurrentFrequency,
             !.PreviousAllPassResonance = CurrentResonance]
      ELSE o

\* the decay gain of the block: const float DecayRateVariable = *DecayRate
DecayGain(p) == p.DecayRate

\* ScaledAudio[FrameIndex] = InputAudio[FrameIndex] * *PreLowPassFilter
RECURSIVE ScaledAudio(_, _)
ScaledAudio(input, p) ==
  IF input = <<>> THEN <<>>
  ELSE <<Mul(Head(input), p.PreLowPassFilter)>> \o ScaledAudio(Tail(input), p)

\* Execute, the pre-delay check: GetNextValue() advances the ease, SetValue
\* retargets it when the host value differs from the value it returned
PreDelayCheck(o, p) ==
  Only({ [o EXCEPT
            !.DampingMultiplicationValue = Scale - p.DecayDamping,
            !.CurrentDelayLength =
               IF ~IsNearlyEqual(p.PreDelayTime, e.CurrentValue)
               THEN Ease_SetValue(e, p.PreDelayTime) ELSE e]
         : e \in {Ease_GetNextValue(o.CurrentDelayLength)} })

\* Execute, the phasor increment check: GetNextValue() advances the ease again
PhasorIncrementCheck(o, p) ==
  Only({ IF ~IsNearlyEqual(GetDelayLengthClamped(p), e.CurrentValue)
         THEN [o EXCEPT !.CurrentDelayLength = e,
                        !.PhasorPhaseIncrement =
                           GetPhasorPhaseIncrement(
                             [o EXCEPT !.CurrentDelayLength = e])]
         ELSE [o EXCEPT !.CurrentDelayLength = e]
         : e \in {Ease_GetNextValue(o.CurrentDelayLength)} })

\* LPVariableFilter.ProcessAudio over the scaled block, then AllPassFilter()
\* and the phasor increment check
FilterBlock(o, p, input) ==
  Only({ Only({ <<PhasorIncrementCheck(o4, p), lp[2]>>
                : o4 \in {AllPassFilter(
                            [o EXCEPT !.LPVariableFilter = lp[1]], p)} })
         : lp \in {SVF_ProcessAudio(o.LPVariableFilter,
                                    ScaledAudio(input, p))} })

\* Execute up to the frame loop:
\* <<the operator afterwards, the LowPassAudio array>>
ExecuteBlockStart(o, p, input) ==
  Only({ Only({ FilterBlock(o3, p, input)
                : o3 \in {LowPassFilter(o2, p)} })
         : o2 \in {PreDelayCheck(o, p)} })

(***************************************************************************)
(* FReverberationOperator: one pass of the frame loop of Execute           *)
(***************************************************************************)
\* a variant of the first pre-delay tap, read 40 ms short of the smoothed pre-delay
C8_DelayTapReadShort(PhasorReadPosition) ==
  Max(PhasorReadPosition - Whole(40), 0)

\* first tap of the pre-delay line: FMath::Max(PhasorReadPosition, 0.0f)
DelayTapRead1(PhasorReadPosition) == Max(PhasorReadPosition, 0)

\* second tap: Fmod(Max(PhasorReadPosition + 100, 0), GetDelayLengthSamples())
DelayTapRead2(PhasorReadPosition, DelayLengthSamples) ==
  Fmod(Max(PhasorReadPosition + Whole(100), 0), DelayLengthSamples)

\* tap of a feedback delay line:
\* Fmod(Max(FeedbackReadPosition, 0), GetDelayLengthSamples())
FeedbackTapRead(FeedbackReadPosition, DelayLengthSamples) ==
  Fmod(Max(FeedbackReadPosition, 0), DelayLengthSamples)

\* a variant of the final tap with a wider upper limit
C14_FinalDelayTapReadWide(InFinalDelay) == Clamp(InFinalDelay, 0, Whole(2100))

\* tap of a final delay line: FMath::Clamp(*InFinalDelay, 0, 2000)
FinalDelayTapRead(InFinalDelay) == Clamp(InFinalDelay, 0, Whole(2000))

\* a variant of the sum that leaves the feedback register out
C18_FeedbackSumDropped(ProcessedSample, Feedback) == ProcessedSample

\* if (Feedback != NULL) Sample = ProcessedSample + Feedback
FeedbackSum(ProcessedSample, Feedback) ==
  IF Feedback # 0 THEN ProcessedSample + Feedback ELSE ProcessedSample

\* the four input diffusers from diffuser i on, each fed the low-passed
\* sample, outputs summed: <<the diffusers afterwards, the sum, the sample
\* handed to each diffuser, the sample each diffuser returned>>
RECURSIVE InputDiffusionFrom(_, _, _)
InputDiffusionFrom(filters, sample, i) ==
  IF i > Len(filters) THEN <<<<>>, 0, <<>>, <<>>>>
  ELSE Only({ Only({ <<<<one[1]>> \o rest[1], one[2] + rest[2],
                       <<sample>> \o rest[3], <<one[2]>> \o rest[4]>>
                     : rest \in {InputDiffusionFrom(filters, sample, i + 1)} })
              : one \in {FDelayAPF_ProcessAudioSample(filters[i], sample)} })

\* <<the diffusers afterwards, AllPassProcessedSample>>
InputDiffusion(filters, sample) == InputDiffusionFrom(filters, sample, 1)

\* one side of the tail up to the second diffuser:
\* [first, apf1, damp, apf2, final, input, damped], final being the sample
\* written to the final delay line and handed to the other side, input the
\* sample the first diffuser was handed, damped the sample handed to the
\* damping filter
TailSide(apf1, apf2, dampFilter, sumIn, DampingMultiplicationValue, DecayRateVariable) ==
  Only({ Only({ Only({ [first |-> d1[2], apf1 |-> d1[1], damp |-> lp[1],
                        apf2 |-> d2[1],
                        final |-> Mul(d2[2], DecayRateVariable),
                        input |-> sumIn,
                        damped |-> Mul(d1[2], DampingMultiplicationValue)]
                       : d2 \in {FDelayAPF_ProcessAudioSample(apf2, lp[2])} })
                : lp \in {SVF_ProcessAudioFrame(
                            dampFilter,
                            Mul(d1[2], DampingMultiplicationValue))} })
         : d1 \in {FDelayAPF_ProcessAudioSample(apf1, sumIn)} })

\* a variant of the mix with the left feedback tap weighted by wet twice
C4_MixedSampleTapTwice(OriginalSample, DryValue, WetValue, DelayedSample, FeedbackSampleLeft, FeedbackSampleRight, FinalFeedbackSampleLeft, FinalFeedbackSampleRight) ==
    Mul(OriginalSample, DryValue)
  + Mul(DelayedSample, WetValue)
  + 2 * Mul(FeedbackSampleLeft, WetValue) + Mul(FeedbackSampleRight, WetValue)
  + Mul(FinalFeedbackSampleLeft, WetValue)
  + Mul(FinalFeedbackSampleRight, WetValue)

\* MixedSample
MixedSample(OriginalSample, DryValue, WetValue, DelayedSample, FeedbackSampleLeft, FeedbackSampleRight, FinalFeedbackSampleLeft, FinalFeedbackSampleRight) ==
    Mul(OriginalSample, DryValue)
  + Mul(DelayedSample, WetValue)
  + Mul(FeedbackSampleLeft, WetValue) + Mul(FeedbackSampleRight, WetValue)
  + Mul(FinalFeedbackSampleLeft, WetValue)
  + Mul(FinalFeedbackSampleRight, WetValue)

\* the loop of WriteDelaysAndInc over the input diffusers
RECURSIVE WriteDiffusers(_, _)
WriteDiffusers(filters, ProcessedSample) ==
  IF filters = <<>> THEN <<>>
  ELSE <<FDelay_WriteDelayAndInc(Head(filters), ProcessedSample)>>
       \o WriteDiffusers(Tail(filters), ProcessedSample)

\* WriteDelaysAndInc
WriteDelaysAndInc(o, ProcessedSample, FirstLeft, FirstRight, FinalDelayPassLeft, FinalDelayPassRight) ==
  [o EXCEPT
    !.DelayBuffer = FDelay_WriteDelayAndInc(@, ProcessedSample),
    !.DattorroAllPassFilters = WriteDiffusers(@, ProcessedSample),
    !.FeedbackDelayLeft = FDelay_WriteDelayAndInc(@, FirstLeft),
    !.FeedbackDelayRight = FDelay_WriteDelayAndInc(@, FirstRight),
    !.DecayDiffusionFilter1Left = FDelay_WriteDelayAndInc(@, FirstLeft),
    !.DecayDiffusionFilter2Left = FDelay_WriteDelayAndInc(@, FirstLeft),
    !.DecayDiffusionFilter1Right = FDelay_WriteDelayAndInc(@, FirstRight),
    !.DecayDiffusionFilter2Right = FDelay_WriteDelayAndInc(@, FirstRight),
    !.PostLPFFeedbackDelayLeft = FDelay_WriteDelayAndInc(@, FinalDelayPassLeft),
    !.PostLPFFeedbackDelayRight =
       FDelay_WriteDelayAndInc(@, FinalDelayPassRight),
    !.FeedbackLeft = FinalDelayPassRight,
    !.FeedbackRight = FinalDelayPassLeft]

\* the six delay-line reads of one frame, made on the operator as the frame
\* finds it (the lines are written at the end of the frame).  garbage is the
\* value an out-of-range read returns.
FrameTaps(o, p, garbage) ==
  LET sr == o.SampleRate
      PhasorReadPosition == Ease_GetNextValue(o.CurrentDelayLength).CurrentValue
      Tap1 == DelayTapRead1(PhasorReadPosition)
      Tap2 == DelayTapRead2(PhasorReadPosition, o.DelayBuffer.DelayInSamples)
      TapL == FeedbackTapRead(
                Ease_GetNextValue(o.FeedbackDelayEaseLeft).CurrentValue,
                o.FeedbackDelayLeft.DelayInSamples)
      TapR == FeedbackTapRead(
                Ease_GetNextValue(o.FeedbackDelayEaseRight).CurrentValue,
                o.FeedbackDelayRight.DelayInSamples)
      FinalTapL == FinalDelayTapRead(p.InFinalDelayLeft)
      FinalTapR == FinalDelayTapRead(p.InFinalDelayRight)
  IN  [Sample1 |-> FDelay_ReadDelayAt(o.DelayBuffer, sr, Tap1, garbage),
       Sample2 |-> FDelay_ReadDelayAt(o.DelayBuffer, sr, Tap2, garbage),
       FeedbackSampleLeft |->
         FDelay_ReadDelayAt(o.FeedbackDelayLeft, sr, TapL, garbage),
       FeedbackSampleRight |->
         FDelay_ReadDelayAt(o.FeedbackDelayRight, sr, TapR, garbage),
       FinalFeedbackSampleLeft |->
         FDelay_ReadDelayAt(o.PostLPFFeedbackDelayLeft, sr, FinalTapL, garbage),
       FinalFeedbackSampleRight |->
         FDelay_ReadDelayAt(o.PostLPFFeedbackDelayRight, sr, FinalTapR,
                            garbage),
       offsets |-> [DelayTapRead1 |-> Tap1, DelayTapRead2 |-> Tap2,
                    FeedbackLeft |-> TapL, FeedbackRight |-> TapR,
                    FinalDelayLeft |-> FinalTapL,
                    FinalDelayRight |-> FinalTapR],
       outOfRange |->
         \/ FDelay_ReadOutOfRange(o.DelayBuffer, sr, Tap1)
         \/ FDelay_ReadOutOfRange(o.DelayBuffer, sr, Tap2)
         \/ FDelay_ReadOutOfRange(o.FeedbackDelayLeft, sr, TapL)
         \/ FDelay_ReadOutOfRange(o.FeedbackDelayRight, sr, TapR)
         \/ FDelay_ReadOutOfRange(o.PostLPFFeedbackDelayLeft, sr, FinalTapL)
         \/ FDelay_ReadOutOfRange(o.PostLPFFeedbackDelayRight, sr, FinalTapR),
       zeroFmod |->
         \/ o.DelayBuffer.DelayInSamples = 0
         \/ o.FeedbackDelayLeft.DelayInSamples = 0
         \/ o.FeedbackDelayRight.DelayInSamples = 0]

\* the frame once the diffusers and both sides of the tail have run
FrameResult(o, p, OriginalSample, t, diff, left, right) ==
  [op |-> WriteDelaysAndInc(
            [o EXCEPT
               !.CurrentDelayLength = Ease_GetNextValue(@),
               !.FeedbackDelayEaseLeft = Ease_GetNextValue(@),
               !.FeedbackDelayEaseRight = Ease_GetNextValue(@),
               !.DattorroAllPassFilters = diff[1],
               !.DecayDiffusionFilter1Left = left.apf1,
               !.DecayDiffusionFilter2Left = left.apf2,
               !.DecayDiffusionFilter1Right = right.apf1,
               !.DecayDiffusionFilter2Right = right.apf2,
               !.LPDampingFilter = right.damp],
            diff[2], left.first, right.first, left.final, right.final),
   Mixed |-> MixedSample(OriginalSample, p.DryValue, p.WetValue,
                         t.Sample1 + t.Sample2,
                         t.FeedbackSampleLeft, t.FeedbackSampleRight,
                         t.FinalFeedbackSampleLeft,
                         t.FinalFeedbackSampleRight),
   taps |-> [Sample1 |-> t.Sample1, Sample2 |-> t.Sample2,
             FeedbackSampleLeft |-> t.FeedbackSampleLeft,
             FeedbackSampleRight |-> t.FeedbackSampleRight,
             FinalFeedbackSampleLeft |-> t.FinalFeedbackSampleLeft,
             FinalFeedbackSampleRight |-> t.FinalFeedbackSampleRight],
   outOfRange |-> t.outOfRange,
   zeroFmod |-> t.zeroFmod,
   samples |-> [offsets |-> t.offsets,
                DiffuserInput |-> diff[3], DiffuserOutput |-> diff[4],
                ProcessedSample |-> diff[2],
                TailInputLeft |-> left.input, TailInputRight |-> right.input,
                FirstLeft |-> left.first, FirstRight |-> right.first,
                FinalLeft |-> left.final, FinalRight |-> right.final,
                DampedLeft |-> left.damped, DampedRight |-> right.damped,
                DampingAtFrameStart |-> o.LPDampingFilter,
                DampingAtRightStart |-> left.damp]]

\* both sides of the tail; the right side's damping filter is the one the
\* left side just used
FrameTail(o, p, OriginalSample, DecayRateVariable, t, diff) ==
  Only({ Only({ FrameResult(o, p, OriginalSample, t, diff, left, right)
                : right \in {TailSide(o.DecayDiffusionFilter1Right,
                                      o.DecayDiffusionFilter2Right, left.damp,
                                      FeedbackSum(diff[2], o.FeedbackRight),
                                      o.DampingMultiplicationValue,
                                      DecayRateVariable)} })
         : left \in {TailSide(o.DecayDiffusionFilter1Left,
                              o.DecayDiffusionFilter2Left, o.LPDampingFilter,
                              FeedbackSum(diff[2], o.FeedbackLeft),
                              o.DampingMultiplicationValue,
                              DecayRateVariable)} })

\* the body of the frame loop for one FrameCount.  Result:
\*   op         the operator afterwards
\*   Mixed      the sample stored in OutputAudio[FrameCount]
\*   taps       the six samples read from the delay lines
\*   outOfRange a read indexed outside its buffer
\*   zeroFmod   an Fmod was reached with a zero divisor
\*   samples    the read offsets and the intermediate samples of the frame
ExecuteFrameBody(o, p, LowPassSample, OriginalSample, DecayRateVariable, garbage) ==
  Only({ FrameTail(o, p, OriginalSample, DecayRateVariable, t, diff)
         : t \in {FrameTaps(o, p, garbage)},
           diff \in {InputDiffusion(o.DattorroAllPassFilters,
                                    LowPassSample)} })

(***************************************************************************)
(* The pitch-shift prototype (Source/CMP407_Reverberation):                *)
(* FPitchShiftOperator, and the early FReverberationOperator whose         *)
(* constructor, getters and Execute are the same text.                     *)
(***************************************************************************)
\* the shortest and the longest delay length in ms, and the largest pitch
\* shift in octaves
MinDelayLength == 10

MaxDelayLength == 100

MaxAbsPitchShiftInOctaves == 6

\* 2 to the power n, n a natural number
RECURSIVE PowerOfTwo(_)
PowerOfTwo(n) == IF n = 0 THEN 1 ELSE 2 * PowerOfTwo(n - 1)

\* Audio::GetFrequencyMultiplier(InPitchSemitones) = 2^(semitones / 12):
\* exact at whole octaves, a straight line between two octaves
GetFrequencyMultiplier(semitones) ==
  LET down == IF semitones >= 0 THEN 0
              ELSE (Abs(semitones) + Whole(12) - 1) \div Whole(12)
      rest == semitones + down * Whole(12)
      up == rest \div Whole(12)
      part == TruncDiv((rest - up * Whole(12)) * Scale, Whole(12))
  IN  TruncDiv(PowerOfTwo(up) * (Scale + part), PowerOfTwo(down))

\* a variant of Wrap that returns the value as it is
C29_WrapNone(X, lo, hi) == X

\* FMath::Wrap(X, Min, Max): Size is added while X is below Min and taken
\* off while X is above Max
RECURSIVE Wrap(_, _, _)
Wrap(X, lo, hi) ==
  IF hi - lo = 0 THEN hi
  ELSE IF X < lo THEN Wrap(X + (hi - lo), lo, hi)
  ELSE IF X > hi THEN Wrap(X - (hi - lo), lo, hi)
  ELSE X

\* FMath::Cos(PI * (Phase - 0.5)) for a phase in [0, 1], by the rational
\* approximation 16 x (1 - x) / (5 - 4 x (1 - x)) of sin(PI x)
DelayTapGain(Phase) ==
  LET q == Mul(Phase, Scale - Phase)
  IN  TruncDiv(16 * q * Scale, 5 * Scale - 4 * q)

\* GetPitchShiftClamped
PitchShift_GetPitchShiftClamped(p) ==
  Clamp(p.PitchShift, -Whole(12 * MaxAbsPitchShiftInOctaves),
        Whole(12 * MaxAbsPitchShiftInOctaves))

\* GetDelayLengthClamped
PitchShift_GetDelayLengthClamped(p) ==
  Clamp(p.DelayLength, Whole(MinDelayLength), Whole(MaxDelayLength))

\* GetPhasorPhaseIncrement: (1 - ratio) / (0.001 * delay length) / SampleRate
PitchShift_GetPhasorPhaseIncrement(o) ==
  LET PitchShiftRatio == GetFrequencyMultiplier(o.CurrentPitchShift)
  IN  TruncDiv(TruncDiv((Scale - PitchShiftRatio) * 1000, o.SampleRate) * Scale,
               o.CurrentDelayLength.CurrentValue)

\* the constructor
PitchShift_Construct(sr, p) ==
  LET o0 == [SampleRate |-> sr,
             CurrentDelayLength |->
               Ease_Init(PitchShift_GetDelayLengthClamped(p)),
             DelayBuffer |-> FDelay_Init(sr, Whole(MaxDelayLength)),
             CurrentPitchShift |-> PitchShift_GetPitchShiftClamped(p),
             PhasorPhase |-> 0,
             PhasorPhaseIncrement |-> 0]
  IN  [o0 EXCEPT !.PhasorPhaseIncrement = PitchShift_GetPhasorPhaseIncrement(o0)]

\* Execute up to the frame loop: GetNextValue() advances the ease; a changed
\* delay length or pitch shift retargets it and recomputes the increment
PitchShift_ExecuteBlockStart(o, p) ==
  LET e == Ease_GetNextValue(o.CurrentDelayLength)
      NewDelayLengthClamped == PitchShift_GetDelayLengthClamped(p)
      NewPitchShiftClamped == PitchShift_GetPitchShiftClamped(p)
      bRecomputePhasorIncrement ==
        \/ ~IsNearlyEqual(NewDelayLengthClamped, e.CurrentValue)
        \/ ~IsNearlyEqual(NewPitchShiftClamped, o.CurrentPitchShift)
      o1 == [o EXCEPT !.CurrentDelayLength = e]
      o2 == [o1 EXCEPT
               !.CurrentDelayLength = Ease_SetValue(e, NewDelayLengthClamped),
               !.CurrentPitchShift = NewPitchShiftClamped]
  IN  IF bRecomputePhasorIncrement
      THEN [o2 EXCEPT
              !.PhasorPhaseIncrement = PitchShift_GetPhasorPhaseIncrement(o2)]
      ELSE o1

\* the ease step at the top of the frame loop
PitchShift_EaseStep(o) ==
  IF ~Ease_IsDone(o.CurrentDelayLength)
  THEN [o EXCEPT
          !.PhasorPhaseIncrement = PitchShift_GetPhasorPhaseIncrement(o),
          !.CurrentDelayLength = Ease_GetNextValue(@)]
  ELSE o

\* the body of the frame loop on the operator o1 the ease step left:
\* [op, OutputSample, DelayTapRead1, DelayTapRead2, outOfRange]
PitchShift_FrameBody(o1, InputSample, garbage) ==
  LET PhasorPhaseOffset == Fmod(o1.PhasorPhase + Scale \div 2, Scale)
      Tap1 == Mul(o1.CurrentDelayLength.CurrentValue, o1.PhasorPhase)
      Tap2 ==
        Mul(o1.CurrentDelayLength.CurrentValue, PhasorPhaseOffset)
      Sample1 ==
        Mul(DelayTapGain(o1.PhasorPhase),
            FDelay_ReadDelayAt(o1.DelayBuffer, o1.SampleRate, Tap1,
                               garbage))
      Sample2 ==
        Mul(DelayTapGain(PhasorPhaseOffset),
            FDelay_ReadDelayAt(o1.DelayBuffer, o1.SampleRate, Tap2,
                               garbage))
  IN  [op |-> [o1 EXCEPT
                 !.PhasorPhase =
                    Wrap(o1.PhasorPhase + o1.PhasorPhaseIncrement, 0, Scale),
                 !.DelayBuffer = FDelay_WriteDelayAndInc(@, InputSample)],
       OutputSample |-> Sample1 + Sample2,
       DelayTapRead1 |-> Tap1,
       DelayTapRead2 |-> Tap2,
       outOfRange |->
         \/ FDelay_ReadOutOfRange(o1.DelayBuffer, o1.SampleRate, Tap1)
         \/ FDelay_ReadOutOfRange(o1.DelayBuffer, o1.SampleRate, Tap2)]

\* one pass of the frame loop
PitchShift_Frame(o, InputSample, garbage) ==
  Only({ PitchShift_FrameBody(o1, InputSample, garbage)
         : o1 \in {PitchShift_EaseStep(o)} })

(***************************************************************************)
(* State                                                                   *)
(***************************************************************************)
VARIABLES
  params,             \* the values behind the host's parameter references
  NumFrames,          \* AudioInput->Num(), fixed by the operator settings
  AudioInput,         \* the host's input block
  AudioOutput,        \* the operator's output block
  op,                 \* the fields of the FReverberationOperator
  twin,               \* <<>>, or <<a second operator built and driven alike>>
  pc,                 \* "idle", "frames" (inside the loop) or "aborted"
  FrameCount,         \* the loop counter of Execute
  LowPassAudio,       \* Execute's local array
  DecayRateVariable,  \* Execute's local decay gain
  calls,              \* Execute calls that have returned
  hostWrote,          \* the host changed a parameter since the last call
  written,            \* output indices stored by the current call, in order
  taps,               \* the six delay-line samples read by the last frame
  lastFrame,          \* read offsets and intermediate samples of the last frame
  executeAllocs,      \* heap arrays sized by the current or last Execute call
  reconfigured,       \* the filter set-up branches the last Execute call took
  proto,              \* the pitch-shift prototype, <<>> where it is not run
  zeroDivisor,        \* an Fmod with a zero divisor has been reached
  silent              \* every input block so far was all zero

vars == <<params, NumFrames, AudioInput, AudioOutput, op, twin, pc, FrameCount,
          LowPassAudio, DecayRateVariable, calls, hostWrote, written, taps,
          lastFrame, executeAllocs, reconfigured, proto, zeroDivisor,
          silent>>

\* what an out-of-range read may return in the unchecked build
Garbage == {0, Frac(1, 2)}

ZeroBlock(n) == [i \in 1 .. n |-> 0]

\* a unit impulse at sample 0 followed by zeros
ImpulseBlock(n) == [i \in 1 .. n |-> IF i = 1 THEN Scale ELSE 0]

NoTaps ==
  [Sample1 |-> 0, Sample2 |-> 0,
   FeedbackSampleLeft |-> 0, FeedbackSampleRight |-> 0,
   FinalFeedbackSampleLeft |-> 0, FinalFeedbackSampleRight |-> 0]

\* no frame has run yet
NoFrame ==
  [offsets |-> [DelayTapRead1 |-> 0, DelayTapRead2 |-> 0, FeedbackLeft |-> 0,
                FeedbackRight |-> 0, FinalDelayLeft |-> 0,
                FinalDelayRight |-> 0],
   DiffuserInput |-> <<>>, DiffuserOutput |-> <<>>, ProcessedSample |-> 0,
   TailInputLeft |-> 0, TailInputRight |-> 0, FirstLeft |-> 0,
   FirstRight |-> 0, FinalLeft |-> 0, FinalRight |-> 0,
   DampedLeft |-> 0, DampedRight |-> 0,
   DampingAtFrameStart |-> SVF_Init, DampingAtRightStart |-> SVF_Init]

\* values the host is taken to supply, inside and outside the documented
\* ranges; each is one parameter set away from the vertex defaults
Variations ==
  { <<"PreDelayTime", 0>>, <<"PreDelayTime", Whole(100)>>,
    <<"InFeedbackDelay1", 0>>, <<"InFeedbackDelay1", Whole(1)>>,
    <<"DecayRate", Whole(2)>>, <<"DecayRate", -Frac(1, 2)>>,
    <<"InputDiffusion1", Frac(3, 2)>>, <<"DecayDiffusion2", Whole(1)>>,
    <<"DecayDamping", Whole(2)>>, <<"PreLowPassFilter", Frac(1, 2)>>,
    <<"LowPassCutoff", Whole(600)>>, <<"InFinalDelayLeft", Whole(2500)>>,
    <<"WetValue", Whole(2)>>, <<"DryValue", 0>>, <<"RandomDelay", 0>> }

\* a pre-delay long enough for the first tail diffusers' delay to fit their
\* buffers, with two possible random offsets
LongPreDelay ==
  [DefaultParams EXCEPT !.PreDelayTime = Whole(500), !.RandomDelay = Whole(1)]

InitProfiles ==
  {DefaultParams, LongPreDelay}
    \cup {[DefaultParams EXCEPT ![w[1]] = w[2]] : w \in Variations}

\* the state right after the constructor ran with parameters p
Constructed(p, sr, n, rl, rr) ==
  /\ params = p
  /\ NumFrames = n
  /\ AudioInput = ZeroBlock(n)
  /\ AudioOutput = ZeroBlock(n)
  /\ op = Construct(sr, p, rl, rr)
  /\ pc = "idle"
  /\ FrameCount = 0
  /\ LowPassAudio = <<>>
  /\ DecayRateVariable = 0
  /\ calls = 0
  /\ hostWrote = FALSE
  /\ written = <<>>
  /\ taps = NoTaps
  /\ lastFrame = NoFrame
  /\ executeAllocs = {}
  /\ reconfigured = {}
  /\ zeroDivisor = FALSE
  /\ silent = TRUE

Init ==
  \E p \in InitProfiles :
    \E rl \in RandRange(p), rr \in RandRange(p) :
      /\ Constructed(p, HostSampleRate, BlockSize, rl, rr)
      /\ twin = <<>>
      /\ proto = <<>>

(***************************************************************************)
(* Actions                                                                 *)
(***************************************************************************)
\* the values the host is taken to store while the operator runs
HostWrites ==
  { <<"PreDelayTime", Whole(100)>>, <<"PreDelayTime", Whole(5)>>,
    <<"DecayRate", Whole(2)>>, <<"InputDiffusion1", Frac(3, 2)>>,
    <<"WetValue", Whole(2)>>, <<"LowPassCutoff", Whole(600)>>,
    <<"InFinalDelayLeft", Whole(2500)>>, <<"DecayDiffusion1", Frac(1, 2)>>,
    <<"InFeedbackDelay1", Whole(40)>>,
    <<"PreLowPassFilter", Frac(1, 4)>>, <<"DecayDamping", Whole(1)>> }

\* between two blocks the host stores a new value behind one reference
HostSetParam ==
  /\ pc = "idle"
  /\ calls >= 1
  /\ ~hostWrote
  /\ \E w \in HostWrites :
       /\ params[w[1]] # w[2]
       /\ params' = [params EXCEPT ![w[1]] = w[2]]
  /\ hostWrote' = TRUE
  /\ UNCHANGED <<NumFrames, AudioInput, AudioOutput, op, twin, pc, FrameCount,
                 LowPassAudio, DecayRateVariable, calls, written, taps,
                 lastFrame, executeAllocs, reconfigured, proto, zeroDivisor,
          silent>>

\* the set-up branches an Execute call takes on operator o: that of
\* LowPassFilter(), and that of AllPassFilter() on the operator as
\* LowPassFilter() leaves it
Reconfigured(o, p) ==
  (IF LowPassNeedsUpdate(o, p) THEN {"LowPassFilter"} ELSE {})
    \cup (IF AllPassNeedsUpdate(LowPassFilter(o, p), p)
          THEN {"AllPassFilter"} ELSE {})

\* the arrays Execute declares and sizes with SetNumUninitialized(NumFrames)
ExecuteLocalArrays == {"LowPassAudio", "ScaledAudio"}

\* the second operator runs Execute up to its frame loop
TwinStart(t, p, input) ==
  Only({ [t EXCEPT !.op = ts[1], !.LowPassAudio = ts[2]]
         : ts \in {ExecuteBlockStart(t.op, p, input)} })

\* the host fills the input block and calls Execute, which runs up to its
\* frame loop
ExecuteStart(maxCalls, inputs) ==
  /\ pc = "idle"
  /\ calls < maxCalls
  /\ \E input \in inputs :
       \E start \in {ExecuteBlockStart(op, params, input)} :
         /\ AudioInput' = input
         /\ op' = start[1]
         /\ LowPassAudio' = start[2]
         /\ silent' = (silent /\ input = ZeroBlock(NumFrames))
         /\ twin' = IF twin = <<>> THEN <<>>
                    ELSE <<TwinStart(twin[1], params, input)>>
  /\ DecayRateVariable' = DecayGain(params)
  /\ pc' = "frames"
  /\ FrameCount' = 0
  /\ written' = <<>>
  /\ executeAllocs' = IF NumFrames > 0 THEN ExecuteLocalArrays ELSE {}
  /\ reconfigured' = Reconfigured(op, params)
  /\ UNCHANGED <<params, NumFrames, AudioOutput, calls, hostWrote, taps,
                 lastFrame, zeroDivisor, proto>>

\* the index of OutputAudio the frame stores to
OutputIndex(frame) == frame

\* a variant of the loop counter that skips every other frame
C3_NextFrameCountSkips(frame) == frame + 2

\* for (FrameCount = 0; FrameCount < NumFrames; FrameCount++): the next value
NextFrameCount(frame) == frame + 1

\* the second operator runs one pass of its frame loop
TwinFrame(t, p, OriginalSample, decay, frame, garbage) ==
  Only({ [t EXCEPT !.op = tb.op,
                   !.AudioOutput[OutputIndex(frame) + 1] = tb.Mixed]
         : tb \in {ExecuteFrameBody(t.op, p, t.LowPassAudio[frame + 1],
                                    OriginalSample, decay, garbage)} })

\* one pass of the frame loop
ExecuteFrame ==
  /\ pc = "frames"
  /\ FrameCount < NumFrames
  /\ \E g \in Garbage, tg \in Garbage :
       \E body \in {ExecuteFrameBody(op, params, LowPassAudio[FrameCount + 1],
                                     AudioInput[FrameCount + 1],
                                     DecayRateVariable, g)} :
         /\ op' = body.op
         /\ AudioOutput' =
              [AudioOutput EXCEPT ![OutputIndex(FrameCount) + 1] = body.Mixed]
         /\ taps' = body.taps
         /\ lastFrame' = body.samples
         /\ zeroDivisor' = (zeroDivisor \/ body.zeroFmod)
         /\ twin' = IF twin = <<>> THEN <<>>
                    ELSE <<TwinFrame(twin[1], params,
                                     AudioInput[FrameCount + 1],
                                     DecayRateVariable, FrameCount, tg)>>
  /\ written' = Append(written, OutputIndex(FrameCount))
  /\ FrameCount' = NextFrameCount(FrameCount)
  /\ UNCHANGED <<params, NumFrames, AudioInput, pc, LowPassAudio,
                 DecayRateVariable, calls, hostWrote, executeAllocs,
                 reconfigured, proto, silent>>

\* the checked build stops at the array's range check when a read of this
\* frame indexes outside its buffer
ExecuteFrameRangeCheck ==
  /\ pc = "frames"
  /\ FrameCount < NumFrames
  /\ FrameTaps(op, params, 0).outOfRange
  /\ pc' = "aborted"
  /\ UNCHANGED <<params, NumFrames, AudioInput, AudioOutput, op, twin,
                 FrameCount, LowPassAudio, DecayRateVariable, calls, hostWrote,
                 written, taps, lastFrame, executeAllocs, reconfigured, proto,
                 zeroDivisor, silent>>

\* the loop ends and Execute returns
ExecuteReturn ==
  /\ pc = "frames"
  /\ FrameCount >= NumFrames
  /\ pc' = "idle"
  /\ calls' = calls + 1
  /\ hostWrote' = FALSE
  /\ UNCHANGED <<params, NumFrames, AudioInput, AudioOutput, op, twin,
                 FrameCount, LowPassAudio, DecayRateVariable, written, taps,
                 lastFrame, executeAllocs, reconfigured, proto, zeroDivisor,
          silent>>

\* the blocks the host may supply
HostBlocks == {ZeroBlock(NumFrames), ImpulseBlock(NumFrames)}

Next ==
  \/ HostSetParam
  \/ ExecuteStart(MaxBlocks, HostBlocks)
  \/ ExecuteFrame
  \/ ExecuteFrameRangeCheck
  \/ ExecuteReturn

Spec == Init /\ [][Next]_vars

\* the same program on a host that keeps calling Execute, each call running
\* its frame loop to the end and returning
SpecLive ==
  /\ Spec
  /\ WF_vars(ExecuteStart(MaxBlocks, HostBlocks))
  /\ WF_vars(ExecuteFrame)
  /\ WF_vars(ExecuteReturn)

(***************************************************************************)
(* Two operators built with the same settings and parameter values, each   *)
(* with its own draws of FMath::RandRange, then driven alike.  The         *)
(* parameter values are such that every read stays inside its buffer.      *)
(***************************************************************************)
PairProfiles ==
  {[DefaultParams EXCEPT !.RandomDelay = Whole(1)], LongPreDelay}

InitPair ==
  \E p \in PairProfiles :
    \E rl \in RandRange(p), rr \in RandRange(p) :
      \E trl \in RandRange(p), trr \in RandRange(p) :
        /\ Constructed(p, HostSampleRate, BlockSize, rl, rr)
        /\ twin = <<[op |-> Construct(HostSampleRate, p, trl, trr),
                     AudioOutput |-> ZeroBlock(BlockSize),
                     LowPassAudio |-> <<>>]>>
        /\ proto = <<>>

NextPair ==
  \/ HostSetParam
  \/ ExecuteStart(MaxBlocks, HostBlocks)
  \/ ExecuteFrame
  \/ ExecuteReturn

SpecPair == InitPair /\ [][NextPair]_vars

\* the frame about to run makes no read outside a buffer
ReadsInRange ==
  pc = "frames" /\ FrameCount < NumFrames =>
    ~FrameTaps(op, params, 0).outOfRange

(***************************************************************************)
(* The impulse scenario: default parameters, a unit impulse in the first   *)
(* block, silence afterwards, no parameter change.  With the defaults      *)
(* every read is inside its buffer, so the range check never stops a frame.*)
(***************************************************************************)
InitDefault ==
  \E rl \in RandRange(DefaultParams), rr \in RandRange(DefaultParams) :
    /\ Constructed(DefaultParams, HostSampleRate, ScenarioBlockSize, rl, rr)
    /\ twin = <<>>
    /\ proto = <<>>

ScenarioBlock ==
  IF calls = 0 THEN {ImpulseBlock(NumFrames)} ELSE {ZeroBlock(NumFrames)}

NextDefault ==
  \/ ExecuteStart(ScenarioBlocks, ScenarioBlock)
  \/ ExecuteFrame
  \/ ExecuteReturn

SpecDefault == InitDefault /\ [][NextDefault]_vars

(***************************************************************************)
(* The pitch-shift prototype run by a host: proto holds its parameter      *)
(* references, the operator, the position in Execute and the two buffers;  *)
(* the reverb operator stands by as constructed.                           *)
(***************************************************************************)
\* values the host is taken to supply for <<PitchShift, DelayLength>>,
\* inside and outside the clamped ranges
PitchProfiles ==
  { [PitchShift |-> ps, DelayLength |-> dl]
    : ps \in {0, Whole(12), -Whole(7), Whole(100), -Whole(100)},
      dl \in {Whole(30), 0, Whole(500)} }

\* the state right after the prototype's constructor ran with parameters p
PitchConstructed(p) ==
  /\ proto = [params |-> p,
              op |-> PitchShift_Construct(HostSampleRate, p),
              pc |-> "idle",
              FrameIndex |-> 0,
              calls |-> 0,
              hostWrote |-> FALSE,
              AudioInput |-> ZeroBlock(BlockSize),
              AudioOutput |-> ZeroBlock(BlockSize),
              DelayTapRead1 |-> 0,
              DelayTapRead2 |-> 0,
              readOutside |-> FALSE]
  /\ Constructed(DefaultParams, HostSampleRate, BlockSize, 0, 0)
  /\ twin = <<>>

InitPitch == \E p \in PitchProfiles : PitchConstructed(p)

\* between two blocks the host stores new values behind the references
PitchHostSetParam ==
  /\ proto.pc = "idle"
  /\ proto.calls >= 1
  /\ ~proto.hostWrote
  /\ \E p \in PitchProfiles :
       /\ p # proto.params
       /\ proto' = [proto EXCEPT !.params = p, !.hostWrote = TRUE]
  /\ UNCHANGED <<params, NumFrames, AudioInput, AudioOutput, op, twin, pc,
                 FrameCount, LowPassAudio, DecayRateVariable, calls, hostWrote,
                 written, taps, lastFrame, executeAllocs, reconfigured,
                 zeroDivisor, silent>>

\* Execute up to the frame loop
PitchExecuteStart ==
  /\ proto.pc = "idle"
  /\ proto.calls < MaxBlocks
  /\ \E input \in {ZeroBlock(BlockSize), ImpulseBlock(BlockSize)} :
       \E start \in {PitchShift_ExecuteBlockStart(proto.op, proto.params)} :
         proto' = [proto EXCEPT !.op = start,
                                !.AudioInput = input,
                                !.pc = "frames",
                                !.FrameIndex = 0]
  /\ UNCHANGED <<params, NumFrames, AudioInput, AudioOutput, op, twin, pc,
                 FrameCount, LowPassAudio, DecayRateVariable, calls, hostWrote,
                 written, taps, lastFrame, executeAllocs, reconfigured,
                 zeroDivisor, silent>>

\* one pass of the frame loop; a read outside the buffer returns whatever
\* memory holds
PitchExecuteFrame ==
  /\ proto.pc = "frames"
  /\ proto.FrameIndex < BlockSize
  /\ \E g \in Garbage :
       \E body \in {PitchShift_Frame(proto.op,
                                     proto.AudioInput[proto.FrameIndex + 1],
                                     g)} :
         proto' = [proto EXCEPT
                     !.op = body.op,
                     !.AudioOutput[proto.FrameIndex + 1] = body.OutputSample,
                     !.DelayTapRead1 = body.DelayTapRead1,
                     !.DelayTapRead2 = body.DelayTapRead2,
                     !.readOutside = (@ \/ body.outOfRange),
                     !.FrameIndex = @ + 1]
  /\ UNCHANGED <<params, NumFrames, AudioInput, AudioOutput, op, twin, pc,
                 FrameCount, LowPassAudio, DecayRateVariable, calls, hostWrote,
                 written, taps, lastFrame, executeAllocs, reconfigured,
                 zeroDivisor, silent>>

\* the loop ends and Execute returns
PitchExecuteReturn ==
  /\ proto.pc = "frames"
  /\ proto.FrameIndex >= BlockSize
  /\ proto' = [proto EXCEPT !.pc = "idle", !.calls = @ + 1,
                            !.hostWrote = FALSE]
  /\ UNCHANGED <<params, NumFrames, AudioInput, AudioOutput, op, twin, pc,
                 FrameCount, LowPassAudio, DecayRateVariable, calls, hostWrote,
                 written, taps, lastFrame, executeAllocs, reconfigured,
                 zeroDivisor, silent>>

NextPitch ==
  \/ PitchHostSetParam
  \/ PitchExecuteStart
  \/ PitchExecuteFrame
  \/ PitchExecuteReturn

SpecPitch == InitPitch /\ [][NextPitch]_vars

\* the index in the whole output stream of the sample the last frame stored
StreamIndex == calls * NumFrames + FrameCount - 1

\* a frame of the loop has just stored its output sample
FrameStored == pc = "frames" /\ FrameCount >= 1

\* the filters that take a coefficient g
AllPassDiffusers(o) ==
  {o.DattorroAllPassFilters[i] : i \in 1 .. Len(DelayLengths)}
    \cup {o.DecayDiffusionFilter1Left, o.DecayDiffusionFilter2Left,
          o.DecayDiffusionFilter1Right, o.DecayDiffusionFilter2Right}

\* every delay line the constructor initialises: the four input diffusers,
\* the pre-delay line and the eight lines of the tail
DelayLines(o) ==
  o.DattorroAllPassFilters
    \o <<o.DelayBuffer,
         o.FeedbackDelayLeft, o.FeedbackDelayRight,
         o.DecayDiffusionFilter1Left, o.DecayDiffusionFilter2Left,
         o.DecayDiffusionFilter1Right, o.DecayDiffusionFilter2Right,
         o.PostLPFFeedbackDelayLeft, o.PostLPFFeedbackDelayRight>>

\* the offsets on top of the base delays 250 and 440 of the first tail
\* diffusers: <<left, right>>
Excursion(o) ==
  <<o.DecayDiffusionFilter1Left.DelayInSamples - Whole(250),
    o.DecayDiffusionFilter1Right.DelayInSamples - Whole(440)>>

\* no step of the program sets the first tail diffusers' delays
ExcursionUnchanged == [][Excursion(op)' = Excursion(op)]_vars

\* the first tail diffusers' buffers hold their base delay plus the offset
\* drawn, so that SetDelaySamples did not cut the delay down to the buffer
ExcursionFits(o, p) ==
  /\ o.DecayDiffusionFilter1Left.AudioBufferSize
       > 250 + Max(Trunc(p.RandomDelay), 0)
  /\ o.DecayDiffusionFilter1Right.AudioBufferSize
       > 440 + Max(Trunc(p.RandomDelay), 0)

\* the offsets the constructor can leave an operator with whose first tail
\* diffusers hold their delays
ExcursionValues ==
  UNION { { Excursion(o) : o \in { c \in { Construct(HostSampleRate, p, rl, rr)
                                           : rl \in RandRange(p),
                                             rr \in RandRange(p) }
                                  : ExcursionFits(c, p) } }
          : p \in InitProfiles }

\* the pre-delay in samples: PreDelayTime ms at the host's sample rate
PreDelayLatency(p, sr) == Trunc(TruncDiv(p.PreDelayTime * sr, 1000))

\* the sum of the tap values read by a frame
TapSum(t) ==
  t.Sample1 + t.Sample2 + t.FeedbackSampleLeft + t.FeedbackSampleRight
    + t.FinalFeedbackSampleLeft + t.FinalFeedbackSampleRight

\* the taps in the order they are mixed
TapList(t) ==
  <<t.Sample1 + t.Sample2, t.FeedbackSampleLeft, t.FeedbackSampleRight,
    t.FinalFeedbackSampleLeft, t.FinalFeedbackSampleRight>>

\* the input block holds a nonzero sample at the index just processed
AllZero(block) == \A i \in DOMAIN block : block[i] = 0

(***************************************************************************)
(* Properties                                                              *)
(***************************************************************************)
\* C1: whatever the host supplies for Decay Rate, the decay gain Execute
\* multiplies into the tail samples is within [0, 1) in every frame.
C1_DecayGainInUnitRange ==
  pc = "frames" => 0 <= DecayRateVariable /\ DecayRateVariable < Scale

\* C2: from construction on, as long as every input block was all zero,
\* every output block is all zero, for any parameter values.
C2_SilenceInSilenceOut ==
  silent => AllZero(AudioOutput)

\* C3: a call of Execute stores output index 0, 1, ... in this order, one
\* index per frame, and has stored every index 0 .. NumFrames-1 exactly once
\* when it returns.
C3_OutputWrittenInOrder ==
  /\ pc \in {"frames", "aborted"} =>
        written = [i \in 1 .. FrameCount |-> i - 1]
  /\ pc = "idle" /\ calls >= 1 =>
        written = [i \in 1 .. NumFrames |-> i - 1]

C3_Witness ==
  /\ pc = "idle"
  /\ calls = MaxBlocks
  /\ Len(written) = NumFrames
  /\ ~AllZero(AudioOutput)

\* C4: the sample a frame stores is dry * input[i] plus, for each tap read in
\* that frame, wet * tap, each tap counted once; it differs from
\* dry * input[i] + wet * (the sum of the taps) by rounding only.
C4_MixIsDryPlusWetTaps ==
  FrameStored =>
    LET x == AudioInput[FrameCount]
        t == TapList(taps)
        mixed == AudioOutput[FrameCount]
    IN  /\ mixed = Mul(x, params.DryValue)
                     + Mul(t[1], params.WetValue) + Mul(t[2], params.WetValue)
                     + Mul(t[3], params.WetValue) + Mul(t[4], params.WetValue)
                     + Mul(t[5], params.WetValue)
        /\ Abs(mixed - (Mul(x, params.DryValue)
                          + Mul(TapSum(taps), params.WetValue))) <= Len(t)

C4_Witness ==
  /\ FrameStored
  /\ AudioInput[FrameCount] # 0
  /\ taps.FeedbackSampleLeft # 0
  /\ params.DryValue # 0
  /\ params.WetValue # 0
  /\ ~FrameTaps(op, params, 0).outOfRange

\* C5: two operators built with the same settings and parameter values and
\* driven with the same parameters and input blocks hold the same output
\* block and the same internal state after every call.
C5_TwinsAgree ==
  twin # <<>> /\ pc = "idle" /\ calls >= 1 =>
    twin[1].op = op /\ twin[1].AudioOutput = AudioOutput

\* C6: for every combination of parameter values no frame reaches an Fmod
\* with a zero divisor, and no call of Execute stops before its block is
\* complete.
C6_NoZeroDivisorAndCompletes ==
  ~zeroDivisor /\ pc # "aborted"

\* C7: in the first call of Execute, output[0] = Dry Value * input[0], for
\* any parameter values.
C7_FirstSampleIsDry ==
  calls = 0 /\ FrameStored =>
    AudioOutput[1] = Mul(AudioInput[1], params.DryValue)

\* C8: with the default parameters and a unit impulse at sample 0 followed by
\* zeros, every tap read and every output sample at a stream index from 1 up
\* to (not including) the pre-delay latency is zero.
C8_NoWetBeforePreDelay ==
  FrameStored /\ 1 <= StreamIndex
    /\ StreamIndex < PreDelayLatency(params, op.SampleRate) =>
      /\ AudioOutput[FrameCount] = 0
      /\ TapList(taps) = <<0, 0, 0, 0, 0>>

\* the last silent sample: the impulse is inside the pre-delay line and has
\* not reached the output
C8_Witness ==
  /\ FrameStored
  /\ StreamIndex = PreDelayLatency(params, op.SampleRate) - 1
  /\ op.DelayBuffer.AudioBuffer # EmptyBuffer
  /\ AudioOutput[FrameCount] = 0

\* C10: every coefficient g held by an all-pass diffuser satisfies
\* 0 <= g < 1, whatever the host supplies for the diffusion parameters.
C10_DiffuserCoefficientsInRange ==
  \A d \in AllPassDiffusers(op) : 0 <= d.G /\ d.G < Scale

\* C11: whatever the host supplies for PreDelayTime, the target and the
\* current value of the pre-delay smoother, which is the read position of
\* the pre-delay line, are within [10, 100] in every frame.
C11_PreDelayLengthInRange ==
  pc = "frames" =>
    /\ Whole(10) <= op.CurrentDelayLength.TargetValue
    /\ op.CurrentDelayLength.TargetValue <= Whole(100)
    /\ Whole(10) <= op.CurrentDelayLength.CurrentValue
    /\ op.CurrentDelayLength.CurrentValue <= Whole(100)

\* C12: every frequency LowPassFilter() has set on the pre-diffusion
\* low-pass filter or on the damping filter is within [0, 0.5 * SampleRate],
\* whatever the host supplies for Low Pass CutOff.
C12_FilterFrequenciesInRange ==
  pc = "frames" =>
    /\ 0 <= op.LPVariableFilter.Frequency
    /\ op.LPVariableFilter.Frequency <= Whole(op.SampleRate) \div 2
    /\ 0 <= op.LPDampingFilter.Frequency
    /\ op.LPDampingFilter.Frequency <= Whole(op.SampleRate) \div 2

\* C13: the damping multiplier applied to each tail sample before the
\* damping filter is 1 - d with d the Delay Damping value clamped to [0, 1],
\* so it lies in [0, 1] in every block.
C13_DampingMultiplierInUnitRange ==
  pc = "frames" =>
    /\ op.DampingMultiplicationValue
         = Scale - Clamp(params.DecayDamping, 0, Scale)
    /\ 0 <= op.DampingMultiplicationValue
    /\ op.DampingMultiplicationValue <= Scale

C15_TailUsesCurrentValues ==
  pc = "frames" =>
    /\ op.DecayDiffusionFilter1Left.G = params.DecayDiffusion1
    /\ op.DecayDiffusionFilter1Right.G = params.DecayDiffusion1
    /\ op.DecayDiffusionFilter2Right.G = params.DecayDiffusion2
    /\ op.FeedbackDelayEaseLeft.TargetValue = params.InFeedbackDelay1
    /\ op.FeedbackDelayEaseRight.TargetValue = params.InFeedbackDelay2


\* C16: no Execute call allocates, resizes or frees memory: the set of heap
\* arrays an Execute call has sized stays empty.
C16_ExecuteAllocatesNothing == executeAllocs = {}


\* C17: the delay lines are initialised once, by the constructor: no step
\* afterwards changes the capacity of a line or sets it up again (which
\* would put its write index back to the start); a step leaves the write
\* index where it is or advances it by the writes of one frame.
C17_InitialisedOnce ==
  [][\A i \in DOMAIN DelayLines(op) :
       LET before == DelayLines(op)[i]
           after == DelayLines(op)'[i]
       IN  /\ after.AudioBufferSize = before.AudioBufferSize
           /\ after.WriteIndex
                \in {(before.WriteIndex + k) % before.AudioBufferSize :
                       k \in 0 .. 2}]_vars

\* a host change of the pre-delay time has been taken up by a later call,
\* whose frames wrote lines that still have their constructed capacity
C17_Witness ==
  /\ FrameStored
  /\ hostWrote
  /\ params.PreDelayTime = Whole(100)
  /\ op.CurrentDelayLength.TargetValue = Whole(100)
  /\ op.DelayBuffer.AudioBufferSize = 51
  /\ op.DelayBuffer.WriteIndex > 0
  /\ \A i \in 1 .. Len(DelayLengths) :
       /\ op.DattorroAllPassFilters[i].AudioBufferSize = 2001
       /\ op.DattorroAllPassFilters[i].DelayInSamples > 0


\* C18: in every frame the left path's input is the diffused input plus the
\* value the right path handed over at the frame before, and the right
\* path's input is the diffused input plus the value the left path handed
\* over; the frame then stores its own two values in the registers, and no
\* other step (the end of a call, a host write, the start of the next call)
\* changes the registers.
C18_CrossCoupledFeedback ==
  [][IF pc = "frames" /\ pc' = "frames" /\ FrameCount' # FrameCount
     THEN /\ lastFrame'.TailInputLeft
               = lastFrame'.ProcessedSample + lastFrame.FinalRight
          /\ lastFrame'.TailInputRight
               = lastFrame'.ProcessedSample + lastFrame.FinalLeft
          /\ op.FeedbackLeft = lastFrame.FinalRight
          /\ op.FeedbackRight = lastFrame.FinalLeft
          /\ op'.FeedbackLeft = lastFrame'.FinalRight
          /\ op'.FeedbackRight = lastFrame'.FinalLeft
     ELSE /\ op'.FeedbackLeft = op.FeedbackLeft
          /\ op'.FeedbackRight = op.FeedbackRight
          /\ lastFrame' = lastFrame]_vars

\* the first frame of a second call took in a nonzero value from each
\* register, left there by the last frame of the first call
C18_Witness ==
  /\ pc = "frames"
  /\ calls >= 1
  /\ FrameCount = 1
  /\ lastFrame.TailInputLeft # lastFrame.ProcessedSample
  /\ lastFrame.TailInputRight # lastFrame.ProcessedSample
  /\ op.FeedbackLeft # 0
  /\ op.FeedbackRight # 0


\* C19: the four input all-pass filters form a series cascade: in every
\* frame the first is handed the low-passed sample, each later one is handed
\* the output of the one before it, and the diffused sample is the output of
\* the fourth.
C19_InputDiffusersInSeries ==
  FrameStored =>
    /\ Len(lastFrame.DiffuserInput) = Len(DelayLengths)
    /\ lastFrame.DiffuserInput[1] = LowPassAudio[FrameCount]
    /\ \A i \in 2 .. Len(DelayLengths) :
         lastFrame.DiffuserInput[i] = lastFrame.DiffuserOutput[i - 1]
    /\ lastFrame.ProcessedSample = lastFrame.DiffuserOutput[Len(DelayLengths)]


\* C20: every delay line is written and advanced exactly once per sample:
\* after any number of frames the write index of each input diffuser, as of
\* every other line, is the number of frames processed so far, wrapped at
\* the line's capacity.
C20_WrittenOncePerSample ==
  (pc = "frames" \/ pc = "idle") =>
    \A i \in DOMAIN DelayLines(op) :
      DelayLines(op)[i].WriteIndex
        = (calls * NumFrames + FrameCount) % DelayLines(op)[i].AudioBufferSize


\* C21: the two tail paths keep separate damping-filter state: when the right
\* path reaches its damping filter, the filter's state is what it was at the
\* start of the frame, untouched by the left path's sample.
C21_DampingStatePerSide ==
  FrameStored => lastFrame.DampingAtRightStart = lastFrame.DampingAtFrameStart


\* C22: the value a channel hands to the opposite channel's feedback
\* register at the end of a frame is the sample the frame read from that
\* channel's final delay line.
C22_RegisterHoldsFinalTap ==
  FrameStored =>
    /\ op.FeedbackRight = taps.FinalFeedbackSampleLeft
    /\ op.FeedbackLeft = taps.FinalFeedbackSampleRight


\* C23: in each channel the signal runs diffuser, delay, damping: the sample
\* that is multiplied by the damping factor and handed to the damping filter
\* is the sample the frame read from that channel's feedback delay line.
C23_DampingFollowsDelay ==
  FrameStored =>
    /\ lastFrame.DampedLeft
         = Mul(taps.FeedbackSampleLeft, op.DampingMultiplicationValue)
    /\ lastFrame.DampedRight
         = Mul(taps.FeedbackSampleRight, op.DampingMultiplicationValue)


\* C24: on both channels the first tail diffuser is configured with the
\* Decay Diffusion 1 coefficient and the second with the Decay Diffusion 2
\* coefficient (looked at before any host write, so that params are the
\* values the operator was constructed with).
C24_TailDiffuserCoefficients ==
  calls = 0 =>
    /\ op.DecayDiffusionFilter1Left.G = params.DecayDiffusion1
    /\ op.DecayDiffusionFilter1Right.G = params.DecayDiffusion1
    /\ op.DecayDiffusionFilter2Left.G = params.DecayDiffusion2
    /\ op.DecayDiffusionFilter2Right.G = params.DecayDiffusion2


\* C25: a change of the pre-low-pass bandwidth or of the damping value takes
\* effect in the next block: while a block's frames are processed, the
\* feedback coefficient of the low-pass filter is the one Update derives from
\* Q = 1 - bandwidth, and that of the damping filter the one it derives from
\* Q = damping.
C25_QChangeRecomputesCoefficients ==
  pc = "frames" =>
    /\ op.LPVariableFilter.Feedback
         = SVF_Update(SVF_SetQ(op.LPVariableFilter,
                               Scale - params.PreLowPassFilter),
                      op.SampleRate).Feedback
    /\ op.LPDampingFilter.Feedback
         = SVF_Update(SVF_SetQ(op.LPDampingFilter, params.DecayDamping),
                      op.SampleRate).Feedback


\* C26: an Execute call for which the host changed no parameter since the
\* previous call reconfigures nothing: it takes neither the set-up branch of
\* LowPassFilter() (SetQ, SetFrequency, Update) nor that of AllPassFilter()
\* (SetG, SetDelaySamples on the input diffusers).
C26_NothingChangedNothingReconfigured ==
  (pc = "frames" /\ calls >= 1 /\ ~hostWrote) => reconfigured = {}


\* C27: every read offset a frame passes to a delay line, taken in samples,
\* lies in [0, capacity) of that line.
C27_ReadOffsetsWithinCapacity ==
  FrameStored =>
    LET InCapacity(offset, d) ==
          /\ 0 <= offset
          /\ Trunc(TruncDiv(offset * op.SampleRate, 1000)) < d.AudioBufferSize
    IN  /\ InCapacity(lastFrame.offsets.DelayTapRead1, op.DelayBuffer)
        /\ InCapacity(lastFrame.offsets.DelayTapRead2, op.DelayBuffer)
        /\ InCapacity(lastFrame.offsets.FeedbackLeft, op.FeedbackDelayLeft)
        /\ InCapacity(lastFrame.offsets.FeedbackRight, op.FeedbackDelayRight)
        /\ InCapacity(lastFrame.offsets.FinalDelayLeft,
                      op.PostLPFFeedbackDelayLeft)
        /\ InCapacity(lastFrame.offsets.FinalDelayRight,
                      op.PostLPFFeedbackDelayRight)


C29_PhaseAndTapsInRange ==
  /\ 0 <= proto.op.PhasorPhase
  /\ proto.op.PhasorPhase <= Scale
  /\ 0 <= proto.DelayTapRead1
  /\ proto.DelayTapRead1 <= Whole(MaxDelayLength)
  /\ 0 <= proto.DelayTapRead2
  /\ proto.DelayTapRead2 <= Whole(MaxDelayLength)
  /\ ~proto.readOutside

\* in a second call, after the host asked for a pitch shift and a delay
\* length beyond both ranges, a frame read at a tap past the shortest delay
\* length and left the phase wrapped to a value inside (0, 1)
C29_Witness ==
  /\ proto.calls >= 1
  /\ proto.pc = "frames"
  /\ proto.FrameIndex >= 1
  /\ proto.params.PitchShift = Whole(100)
  /\ proto.params.DelayLength = Whole(500)
  /\ proto.op.CurrentPitchShift = Whole(12 * MaxAbsPitchShiftInOctaves)
  /\ Abs(proto.op.PhasorPhaseIncrement) > Scale
  /\ proto.op.PhasorPhase > 0
  /\ proto.op.PhasorPhase < Scale
  /\ proto.DelayTapRead2 > Whole(MinDelayLength)


\* C30: the pre-delay smoother is advanced only inside the frame loop, once
\* per frame while it has not reached its target: a frame moves it by one
\* GetNextValue step, and no other step of Execute (the per-block checks
\* before the loop, the return) moves its current value.
C30_SmootherAdvancedOnlyInFrames ==
  [][IF pc = "frames" /\ pc' = "frames" /\ FrameCount' # FrameCount
     THEN op'.CurrentDelayLength = Ease_GetNextValue(op.CurrentDelayLength)
     ELSE op'.CurrentDelayLength.CurrentValue
            = op.CurrentDelayLength.CurrentValue]_vars

=============================================================================
